---- MODULE Spec2Model ----
(***************************************************************************)
(* Model of gpytorch/constraints/constraints.py: the Interval, GreaterThan,*)
(* Positive and LessThan parameter constraints.                            *)
(*                                                                         *)
(* Numbers are fixed point with two decimals: the integer n stands for the *)
(* real n / One, so Interval(0, 10) has bounds 0 and 1000.  math.inf,      *)
(* -math.inf and NaN are the integers Inf, NegInf and NaN, outside the     *)
(* range of any finite value of the model.  A tensor is a sequence of      *)
(* numbers; a sequence of length 1 is a scalar (0-dim) tensor and          *)
(* broadcasts against any length.  Each action is one call; last records   *)
(* the call just made and its outcome, built the arguments each object was *)
(* constructed with.  _apply, __repr__ and __iter__ are not modelled.      *)
(***************************************************************************)
EXTENDS Integers, Sequences, FiniteSets, TLC

VARIABLES objs, built, last

vars == <<objs, built, last>>

\* ------------------------------------------------------------- bounds
MaxObjs == 2
MaxLen == 2
RecursionLimit == 3

\* ------------------------------------------------------------- numbers
One == 100
Inf == 1000000
NegInf == 0 - Inf
NaN == 2 * Inf

IsFinite(x) == x > NegInf /\ x < Inf

Neg(x) == IF x = NaN THEN NaN ELSE 0 - x

Add(x, y) ==
    IF x = NaN \/ y = NaN THEN NaN
    ELSE IF ~IsFinite(x) THEN (IF ~IsFinite(y) /\ y # x THEN NaN ELSE x)
    ELSE IF ~IsFinite(y) THEN y
    ELSE x + y

Sub(x, y) == Add(x, Neg(y))

Sign(x) == IF x > 0 THEN 1 ELSE IF x < 0 THEN 0 - 1 ELSE 0

Mul(x, y) ==
    IF x = NaN \/ y = NaN THEN NaN
    ELSE IF ~IsFinite(x) \/ ~IsFinite(y)
         THEN (IF x = 0 \/ y = 0 THEN NaN ELSE Sign(x) * Sign(y) * Inf)
    ELSE (x * y) \div One

Div(x, y) ==
    IF x = NaN \/ y = NaN THEN NaN
    ELSE IF ~IsFinite(y) THEN (IF ~IsFinite(x) THEN NaN ELSE 0)
    ELSE IF y = 0 THEN (IF x = 0 THEN NaN ELSE Sign(x) * Inf)
    ELSE IF ~IsFinite(x) THEN Sign(x) * Sign(y) * Inf
    ELSE (x * One) \div y

\* IEEE comparisons: anything compared with NaN is false.
Leq(x, y) == x # NaN /\ y # NaN /\ x <= y
Geq(x, y) == x # NaN /\ y # NaN /\ x >= y
Lt(x, y) == x # NaN /\ y # NaN /\ x < y
Gt(x, y) == x # NaN /\ y # NaN /\ x > y

Max2(x, y) == IF x = NaN \/ y = NaN THEN NaN ELSE IF x >= y THEN x ELSE y
Min2(x, y) == IF x = NaN \/ y = NaN THEN NaN ELSE IF x <= y THEN x ELSE y

\* ------------------------------------------------------------- transforms
\* The elementwise functions, tabulated on Grid to two decimals.
Grid == {0 - 200, 0 - 100, 0, 100, 200}

SigmoidTable == [x \in Grid |->
    CASE x = 0 - 200 -> 12 [] x = 0 - 100 -> 27 [] x = 0 -> 50
      [] x = 100 -> 73 [] x = 200 -> 88]

SoftplusTable == [x \in Grid |->
    CASE x = 0 - 200 -> 13 [] x = 0 - 100 -> 31 [] x = 0 -> 69
      [] x = 100 -> 131 [] x = 200 -> 213]

ExpTable == [x \in Grid |->
    CASE x = 0 - 200 -> 14 [] x = 0 - 100 -> 37 [] x = 0 -> 100
      [] x = 100 -> 272 [] x = 200 -> 739]

Clamp(x) == IF x < 0 - 200 THEN 0 - 200 ELSE IF x > 200 THEN 200
            ELSE CHOOSE g \in Grid : g <= x /\ x - g < 100

Abs(x) == IF x < 0 THEN 0 - x ELSE x

\* The grid point whose image under table is nearest to y.
Nearest(table, y) ==
    CHOOSE g \in Grid : \A h \in Grid :
        \/ Abs(table[g] - y) < Abs(table[h] - y)
        \/ (Abs(table[g] - y) = Abs(table[h] - y) /\ g <= h)

sigmoid(x) == IF x = NaN THEN NaN ELSE IF x = Inf THEN One
              ELSE IF x = NegInf THEN 0 ELSE SigmoidTable[Clamp(x)]

softplus(x) == IF x = NaN THEN NaN ELSE IF x = Inf THEN Inf
               ELSE IF x = NegInf THEN 0 ELSE SoftplusTable[Clamp(x)]

exp(x) == IF x = NaN THEN NaN ELSE IF x = Inf THEN Inf
          ELSE IF x = NegInf THEN 0 ELSE ExpTable[Clamp(x)]

inv_sigmoid(y) ==
    IF y = NaN \/ y < 0 \/ y > One THEN NaN
    ELSE IF y = 0 THEN NegInf
    ELSE IF y = One THEN Inf
    ELSE Nearest(SigmoidTable, y)

inv_softplus(y) ==
    IF y = NaN \/ y < 0 THEN NaN
    ELSE IF y = 0 THEN NegInf
    ELSE IF y = Inf THEN Inf
    ELSE Nearest(SoftplusTable, y)

log(y) ==
    IF y = NaN \/ y < 0 THEN NaN
    ELSE IF y = 0 THEN NegInf
    ELSE IF y = Inf THEN Inf
    ELSE Nearest(ExpTable, y)

Transforms == {"sigmoid", "softplus", "exp", "None"}

\* self._transform(tensor), elementwise.
ApplyTransform(t, x) ==
    [k \in DOMAIN x |->
        CASE t = "sigmoid" -> sigmoid(x[k])
          [] t = "softplus" -> softplus(x[k])
          [] OTHER -> exp(x[k])]

\* self._inv_transform(tensor), elementwise.
ApplyInvTransform(f, y) ==
    [k \in DOMAIN y |->
        CASE f = "inv_sigmoid" -> inv_sigmoid(y[k])
          [] f = "inv_softplus" -> inv_softplus(y[k])
          [] OTHER -> log(y[k])]

\* The registry of utils.transforms: the inverse registered for a transform.
GetInvParamTransform(t) ==
    CASE t = "sigmoid" -> "inv_sigmoid"
      [] t = "softplus" -> "inv_softplus"
      [] t = "exp" -> "log"
      [] OTHER -> "unregistered"

\* ------------------------------------------------------------- tensors
MaxOf(m, n) == IF m >= n THEN m ELSE n

Broadcastable(x, y) == Len(x) = 1 \/ Len(y) = 1 \/ Len(x) = Len(y)

At(x, k) == IF Len(x) = 1 THEN x[1] ELSE x[k]

\* Elementwise binary operations under broadcasting.
TAdd(x, y) == [k \in 1..MaxOf(Len(x), Len(y)) |-> Add(At(x, k), At(y, k))]
TSub(x, y) == [k \in 1..MaxOf(Len(x), Len(y)) |-> Sub(At(x, k), At(y, k))]
TMul(x, y) == [k \in 1..MaxOf(Len(x), Len(y)) |-> Mul(At(x, k), At(y, k))]
TDiv(x, y) == [k \in 1..MaxOf(Len(x), Len(y)) |-> Div(At(x, k), At(y, k))]
TMax(x, y) == [k \in 1..MaxOf(Len(x), Len(y)) |-> Max2(At(x, k), At(y, k))]
TMin(x, y) == [k \in 1..MaxOf(Len(x), Len(y)) |-> Min2(At(x, k), At(y, k))]
TNeg(x) == [k \in DOMAIN x |-> Neg(x[k])]

TensorsOver(S, n) == UNION {[1..m -> S] : m \in 1..n}


\* ------------------------------------------------------------- objects
NoObj == [cls |-> "none", lower_bound |-> <<>>, upper_bound |-> <<>>,
          transform |-> "None", inv_transform |-> "unset"]

NoCall == [op |-> "none", a |-> 0, b |-> 0, x |-> <<>>, raw |-> <<>>,
           lo |-> <<>>, hi |-> <<>>, t |-> "None", inv |-> "None",
           status |-> "ok", out |-> <<>>, affine |-> <<>>, ok |-> FALSE,
           res |-> NoObj]

AnyLt(x, c) == \E k \in DOMAIN x : Lt(x[k], c)
AnyGt(x, c) == \E k \in DOMAIN x : Gt(x[k], c)

\* The guard of Interval.__init__ that rejects a double sided bound.
RejectsBounds(l, u, t) == AnyLt(u, Inf) /\ AnyGt(l, NegInf) /\ t # "sigmoid"

\* Interval.__init__: the new object, or the error it raises.
IntervalInit(cls, l, u, t, inv) ==
    IF RejectsBounds(l, u, t)
    THEN [status |-> "RuntimeError", obj |-> NoObj]
    ELSE IF t # "None" /\ inv = "None" /\ GetInvParamTransform(t) = "unregistered"
    THEN [status |-> "RuntimeError", obj |-> NoObj]
    ELSE [status |-> "ok",
          obj |-> [cls |-> cls, lower_bound |-> l, upper_bound |-> u,
                   transform |-> t,
                   inv_transform |-> IF t # "None" /\ inv = "None"
                                     THEN GetInvParamTransform(t)
                                     ELSE "unset"]]

\* The enforced property.
enforced(o) == o.transform # "None"

\* Variant of AdjustUpper that leaves an infinite upper bound in place.
KeepUpper(u) == u

\* upper_bound[upper_bound == math.inf] = 1
AdjustUpper(u) == [k \in DOMAIN u |-> IF u[k] = Inf THEN One ELSE u[k]]

\* lower_bound[lower_bound == -math.inf] = 0
AdjustLower(l) == [k \in DOMAIN l |-> IF l[k] = NegInf THEN 0 ELSE l[k]]

\* Variant of AllLeq with an exclusive upper bound.
AllLess(x, u) == \A k \in 1..MaxOf(Len(x), Len(u)) : Lt(At(x, k), At(u, k))

\* torch.all(tensor <= bound) and torch.all(tensor >= bound)
AllLeq(x, u) == \A k \in 1..MaxOf(Len(x), Len(u)) : Leq(At(x, k), At(u, k))
AllGeq(x, l) == \A k \in 1..MaxOf(Len(x), Len(l)) : Geq(At(x, k), At(l, k))

\* Interval.check
IntervalCheck(o, x) ==
    IF ~Broadcastable(x, o.upper_bound)
    THEN [status |-> "RuntimeError", ok |-> FALSE]
    ELSE IF ~AllLeq(x, o.upper_bound)
    THEN [status |-> "ok", ok |-> FALSE]
    ELSE IF ~Broadcastable(x, o.lower_bound)
    THEN [status |-> "RuntimeError", ok |-> FALSE]
    ELSE [status |-> "ok", ok |-> AllGeq(x, o.lower_bound)]

\* Interval.transform
IntervalTransform(o, x) ==
    IF ~enforced(o) THEN [status |-> "ok", out |-> x]
    ELSE LET t1 == ApplyTransform(o.transform, x)
             ub == AdjustUpper(o.upper_bound)
             lb == AdjustLower(o.lower_bound)
         IN  IF ~Broadcastable(t1, ub)
             THEN [status |-> "RuntimeError", out |-> <<>>]
             ELSE IF ~Broadcastable(TMul(t1, ub), lb)
             THEN [status |-> "RuntimeError", out |-> <<>>]
             ELSE [status |-> "ok", out |-> TAdd(TMul(t1, ub), lb)]

\* LessThan.transform: it calls self.transform, which is itself, so every
\* enforced call descends until the interpreter's recursion limit.
RECURSIVE LessThanTransform(_, _, _)
LessThanTransform(o, x, depth) ==
    IF ~enforced(o) THEN [status |-> "ok", out |-> x]
    ELSE IF depth = 0 THEN [status |-> "RecursionError", out |-> <<>>]
    ELSE LET r == LessThanTransform(o, TNeg(x), depth - 1)
         IN  IF r.status # "ok" THEN r
             ELSE IF ~Broadcastable(r.out, o.upper_bound)
             THEN [status |-> "RuntimeError", out |-> <<>>]
             ELSE [status |-> "ok", out |-> TAdd(TNeg(r.out), o.upper_bound)]

\* Interval.inverse_transform: upper_bound and lower_bound are the object's
\* own tensors, so the two masked assignments change the object.
IntervalInverse(o, y) ==
    IF ~enforced(o)
    THEN [status |-> "ok", out |-> y, affine |-> <<>>, obj |-> o]
    ELSE LET o2 == [o EXCEPT !.upper_bound = AdjustUpper(o.upper_bound),
                             !.lower_bound = AdjustLower(o.lower_bound)]
         IN  IF ~Broadcastable(y, o2.lower_bound)
             THEN [status |-> "RuntimeError", out |-> <<>>, affine |-> <<>>,
                   obj |-> o2]
             ELSE IF ~Broadcastable(TSub(y, o2.lower_bound), o2.upper_bound)
             THEN [status |-> "RuntimeError", out |-> <<>>, affine |-> <<>>,
                   obj |-> o2]
             ELSE LET aff == TDiv(TSub(y, o2.lower_bound), o2.upper_bound)
                  IN  IF o2.inv_transform = "unset"
                      THEN [status |-> "AttributeError", out |-> <<>>,
                            affine |-> aff, obj |-> o2]
                      ELSE [status |-> "ok",
                            out |-> ApplyInvTransform(o2.inv_transform, aff),
                            affine |-> aff, obj |-> o2]

\* LessThan.inverse_transform
LessThanInverse(o, y) ==
    IF ~enforced(o)
    THEN [status |-> "ok", out |-> y, affine |-> <<>>, obj |-> o]
    ELSE IF ~Broadcastable(y, o.upper_bound)
    THEN [status |-> "RuntimeError", out |-> <<>>, affine |-> <<>>, obj |-> o]
    ELSE LET aff == TSub(y, o.upper_bound)
         IN  IF o.inv_transform = "unset"
             THEN [status |-> "AttributeError", out |-> <<>>, affine |-> aff,
                   obj |-> o]
             ELSE [status |-> "ok",
                   out |-> TNeg(ApplyInvTransform(o.inv_transform, TNeg(aff))),
                   affine |-> aff, obj |-> o]

\* The bound method o.transform: equal to another exactly when it is the same
\* function bound to the same object.
BoundMethod(os, i) ==
    <<i, IF os[i].cls = "LessThan" THEN "LessThan.transform"
         ELSE "Interval.transform">>

\* Variant of TransformsConflict with the comparison inverted.
TransformsAgree(os, i, j) == BoundMethod(os, i) = BoundMethod(os, j)

\* self.transform != other.transform
TransformsConflict(os, i, j) == BoundMethod(os, i) # BoundMethod(os, j)

\* Interval.intersect
IntervalIntersect(os, i, j) ==
    IF TransformsConflict(os, i, j)
    THEN [status |-> "RuntimeError", obj |-> NoObj]
    ELSE IF ~Broadcastable(os[i].lower_bound, os[j].lower_bound)
            \/ ~Broadcastable(os[i].upper_bound, os[j].upper_bound)
    THEN [status |-> "RuntimeError", obj |-> NoObj]
    ELSE IntervalInit("Interval",
                      TMax(os[i].lower_bound, os[j].lower_bound),
                      TMin(os[i].upper_bound, os[j].upper_bound),
                      "sigmoid", "inv_sigmoid")

\* ------------------------------------------------------------- inputs
\* Scalar bounds and values of the calls of Spec.
Lowers == {<<0>>, <<200>>}
Uppers == {<<1000>>}
GreaterThanLowers == {<<200>>}
LessThanUppers == {<<500>>}
RawInputs == {<<0 - 200>>, <<200>>}
ConstrainedInputs == {<<300>>, <<1000>>}

\* Tensor bounds and values of the calls of SpecT.
TensorLowers == TensorsOver({NegInf, 0, 200}, MaxLen)
TensorUppers == TensorsOver({1000, Inf}, MaxLen)
TensorValues == TensorsOver({0, 1000, 1100}, MaxLen)

\* ------------------------------------------------------------- state
Init ==
    /\ objs = <<>>
    /\ built = <<>>
    /\ last = NoCall

\* A constructor call: the subclasses pass their arguments to
\* Interval.__init__.  The state after the call; can is false when the call
\* would add an object beyond MaxObjs.
Construct(op, cls, l, u, t, inv) ==
    LET r == IntervalInit(cls, l, u, t, inv)
    IN  [can |-> (r.status = "ok" => Len(objs) < MaxObjs),
         objs |-> IF r.status = "ok" THEN Append(objs, r.obj) ELSE objs,
         built |-> IF r.status = "ok"
                   THEN Append(built, [lower_bound |-> l, upper_bound |-> u,
                                       transform |-> t, inv |-> inv])
                   ELSE built,
         last |-> [NoCall EXCEPT !.op = op, !.lo = l, !.hi = u, !.t = t,
                                 !.inv = inv, !.status = r.status,
                                 !.res = r.obj,
                                 !.a = IF r.status = "ok" THEN Len(objs) + 1
                                       ELSE 0]]

NewInterval ==
    \E l \in Lowers, u \in Uppers, t \in {"sigmoid", "softplus"},
       inv \in {"inv_sigmoid", "None"} :
        LET c == Construct("Interval", "Interval", l, u, t, inv)
        IN  c.can /\ objs' = c.objs /\ built' = c.built /\ last' = c.last

NewGreaterThan ==
    \E l \in GreaterThanLowers, t \in {"softplus", "None"},
       inv \in {"inv_softplus", "None"} :
        LET c == Construct("GreaterThan", "GreaterThan", l, <<Inf>>, t, inv)
        IN  c.can /\ objs' = c.objs /\ built' = c.built /\ last' = c.last

NewPositive ==
    \E t \in {"softplus"}, inv \in {"inv_softplus"} :
        LET c == Construct("Positive", "Positive", <<0>>, <<Inf>>, t, inv)
        IN  c.can /\ objs' = c.objs /\ built' = c.built /\ last' = c.last

NewLessThan ==
    \E u \in LessThanUppers, t \in {"softplus"},
       inv \in {"inv_softplus", "None"} :
        LET c == Construct("LessThan", "LessThan", <<NegInf>>, u, t, inv)
        IN  c.can /\ objs' = c.objs /\ built' = c.built /\ last' = c.last

\* o.transform(x)
TransformOf(o, x) ==
    IF o.cls = "LessThan" THEN LessThanTransform(o, x, RecursionLimit)
    ELSE IntervalTransform(o, x)

\* o.inverse_transform(y)
InverseOf(o, y) ==
    IF o.cls = "LessThan" THEN LessThanInverse(o, y) ELSE IntervalInverse(o, y)

Transform ==
    \E i \in DOMAIN objs, x \in RawInputs :
        LET r == TransformOf(objs[i], x)
        IN  /\ last' = [NoCall EXCEPT !.op = "transform", !.a = i, !.x = x,
                                      !.status = r.status, !.out = r.out]
            /\ UNCHANGED <<objs, built>>

\* The argument is a caller's value, or the result of the transform call
\* just made on the same object; raw then records what that call was given.
\* lo and hi record the bounds the object holds when the call starts.
InverseTransform ==
    \E i \in DOMAIN objs :
        LET chained == last.op = "transform" /\ last.a = i
                       /\ last.status = "ok"
        IN  \E y \in ConstrainedInputs \cup (IF chained THEN {last.out} ELSE {}) :
                LET r == InverseOf(objs[i], y)
                IN  /\ objs' = [objs EXCEPT ![i] = r.obj]
                    /\ last' = [NoCall EXCEPT
                                  !.op = "inverse_transform", !.a = i, !.x = y,
                                  !.raw = IF chained /\ y = last.out
                                          THEN last.x ELSE <<>>,
                                  !.lo = objs[i].lower_bound,
                                  !.hi = objs[i].upper_bound,
                                  !.status = r.status, !.out = r.out,
                                  !.affine = r.affine]
                    /\ UNCHANGED built

Check ==
    \E i \in DOMAIN objs, x \in ConstrainedInputs :
        LET r == IntervalCheck(objs[i], x)
        IN  /\ last' = [NoCall EXCEPT !.op = "check", !.a = i, !.x = x,
                                      !.status = r.status, !.ok = r.ok]
            /\ UNCHANGED <<objs, built>>

\* a.intersect(b); the caller keeps the new constraint or drops it.
Intersect ==
    \E i \in DOMAIN objs, j \in DOMAIN objs, keep \in BOOLEAN :
        LET r == IntervalIntersect(objs, i, j)
            stored == keep /\ r.status = "ok"
        IN  /\ stored => Len(objs) < MaxObjs
            /\ keep => r.status = "ok"
            /\ objs' = IF stored THEN Append(objs, r.obj) ELSE objs
            /\ built' = IF stored
                        THEN Append(built,
                                    [lower_bound |-> r.obj.lower_bound,
                                     upper_bound |-> r.obj.upper_bound,
                                     transform |-> "sigmoid",
                                     inv |-> "inv_sigmoid"])
                        ELSE built
            /\ last' = [NoCall EXCEPT !.op = "intersect", !.a = i, !.b = j,
                                      !.status = r.status, !.res = r.obj]

Next ==
    \/ NewInterval
    \/ NewGreaterThan
    \/ NewPositive
    \/ NewLessThan
    \/ Transform
    \/ InverseTransform
    \/ Check
    \/ Intersect

Spec == Init /\ [][Next]_vars

\* ------------------------------------------------------------- tensor bounds
\* One Interval with tensor bounds, and check calls on it.
NewTensorInterval ==
    \E l \in TensorLowers, u \in TensorUppers, t \in Transforms,
       inv \in {"inv_sigmoid"} :
        LET c == Construct("Interval", "Interval", l, u, t, inv)
        IN  /\ objs = <<>>
            /\ objs' = c.objs /\ built' = c.built /\ last' = c.last

TensorCheck ==
    \E i \in DOMAIN objs, x \in TensorValues :
        LET r == IntervalCheck(objs[i], x)
        IN  /\ last' = [NoCall EXCEPT !.op = "check", !.a = i, !.x = x,
                                      !.status = r.status, !.ok = r.ok]
            /\ UNCHANGED <<objs, built>>

NextT ==
    \/ NewTensorInterval
    \/ TensorCheck

SpecT == Init /\ [][NextT]_vars

\* ------------------------------------------------------------- properties
\* The object the last call was made on, and the second operand of intersect.
Self == objs[last.a]
Other == objs[last.b]

\* Built with the default transform and inverse of its class.
DefaultArgs(i) ==
    IF objs[i].cls = "Interval"
    THEN built[i].transform = "sigmoid" /\ built[i].inv = "inv_sigmoid"
    ELSE built[i].transform = "softplus" /\ built[i].inv = "inv_softplus"

\* C1: for a constraint built with default arguments, transform completes
\* and inverse_transform of its result completes and gives back raw.
C1_RoundTrip ==
    /\ (last.op = "transform" /\ DefaultArgs(last.a)) => last.status = "ok"
    /\ (last.op = "inverse_transform" /\ DefaultArgs(last.a) /\ last.raw # <<>>)
           => (last.status = "ok" /\ last.out = last.raw)

\* C2: the value transform returns for an enforced Interval, GreaterThan or
\* Positive with lower_bound <= upper_bound lies within the bounds, and
\* Positive().transform(raw) is greater than 0.
C2_TransformWithinBounds ==
    (/\ last.op = "transform"
     /\ Self.cls \in {"Interval", "GreaterThan", "Positive"}
     /\ Self.transform # "None"
     /\ Self.lower_bound[1] <= Self.upper_bound[1])
        => /\ last.status = "ok"
           /\ Self.lower_bound[1] <= last.out[1]
           /\ last.out[1] <= Self.upper_bound[1]
           /\ Self.cls = "Positive" => last.out[1] > 0

\* C3: check(value) is true exactly when every element of value lies in
\* [lower_bound, upper_bound], bounds included.
C3_CheckIffWithin ==
    (last.op = "check" /\ last.status = "ok")
        => (last.ok <=>
               /\ \A k \in 1..MaxOf(Len(last.x), Len(Self.upper_bound)) :
                      At(last.x, k) <= At(Self.upper_bound, k)
               /\ \A k \in 1..MaxOf(Len(last.x), Len(Self.lower_bound)) :
                      At(Self.lower_bound, k) <= At(last.x, k))

\* A check of a two element value that equals the upper bound, answered true.
C3_Witness ==
    /\ last.op = "check"
    /\ last.status = "ok"
    /\ last.ok
    /\ Len(last.x) = 2
    /\ last.x = Self.upper_bound

\* C4: a.intersect(b) of two distinct constraints with the same transform
\* succeeds, with bounds max of the lowers and min of the uppers and with
\* that same transform.
C4_IntersectSameTransform ==
    (/\ last.op = "intersect"
     /\ last.a # last.b
     /\ Self.transform = Other.transform)
        => /\ last.status = "ok"
           /\ last.res.lower_bound = TMax(Self.lower_bound, Other.lower_bound)
           /\ last.res.upper_bound = TMin(Self.upper_bound, Other.upper_bound)
           /\ last.res.transform = Self.transform

\* C5: a.intersect(b) of constraints configured with different transforms
\* raises, returns no constraint and changes no object.
C5_ConflictRaises ==
    [][(/\ last'.op = "intersect"
        /\ objs[last'.a].transform # objs[last'.b].transform)
           => /\ last'.status = "RuntimeError"
              /\ last'.res = NoObj
              /\ objs' = objs]_vars

\* An intersect of two constraints with different transforms that raised.
C5_Witness ==
    /\ last.op = "intersect"
    /\ Self.transform # Other.transform
    /\ last.status = "RuntimeError"

\* C6: Interval(lower_bound, upper_bound, transform=t) raises exactly when
\* some element position has both bounds finite and t is not sigmoid.
C6_RejectsIffDoubleSided ==
    last.op = "Interval"
        => (last.status = "RuntimeError" <=>
               /\ last.t # "sigmoid"
               /\ \E k \in 1..MaxOf(Len(last.lo), Len(last.hi)) :
                      At(last.lo, k) > NegInf /\ At(last.hi, k) < Inf)

\* C7: transform of an enforced LessThan(u) finishes and returns
\* upper_bound - softplus(-raw), a value below u.
C7_LessThanTransform ==
    (/\ last.op = "transform"
     /\ Self.cls = "LessThan"
     /\ Self.transform # "None")
        => /\ last.status = "ok"
           /\ last.out[1] = Self.upper_bound[1] - softplus(0 - last.x[1])
           /\ last.out[1] < Self.upper_bound[1]

\* C8: every constraint holds the bounds it was constructed with.
C8_BoundsImmutable ==
    \A i \in DOMAIN objs :
        /\ objs[i].lower_bound = built[i].lower_bound
        /\ objs[i].upper_bound = built[i].upper_bound

\* C9: every constraint with a double sided bound uses the sigmoid transform.
C9_DoubleSidedIsSigmoid ==
    \A i \in DOMAIN objs :
        (\E k \in 1..MaxOf(Len(objs[i].lower_bound), Len(objs[i].upper_bound)) :
            /\ At(objs[i].lower_bound, k) > NegInf
            /\ At(objs[i].upper_bound, k) < Inf)
        => objs[i].transform = "sigmoid"

\* The last call is inverse_transform of an enforced Interval, GreaterThan
\* or Positive that reached the affine step.
InverseAffineDone ==
    /\ last.op = "inverse_transform"
    /\ Self.cls # "LessThan"
    /\ Self.transform # "None"
    /\ last.status \in {"ok", "AttributeError"}

====
